---- MODULE Spec2Model ----
(***************************************************************************)
(* CSS Dashboard: the JSON registry (dashboard/src/database/db.js), the    *)
(* poll cycle and the bulk restart of the renderer                         *)
(* (dashboard/src/renderer.js) and the node client of the main process.    *)
(*                                                                         *)
(* The renderer reaches the registry only through ipcRenderer.invoke; the  *)
(* main process handles the db:* messages one at a time, each handler      *)
(* running db.<method> to completion, in the order the single renderer     *)
(* sent them.  A registry call is therefore one atomic step, taken at the  *)
(* moment the renderer issues it.                                          *)
(***************************************************************************)
EXTENDS Integers, Sequences, FiniteSets, TLC

\* ------------------------------------------------------------- bounds
MaxPis == 2        \* addPi is called at most MaxPis times
MaxRooms == 2      \* addRoom is called at most MaxRooms times
MaxTime == 2       \* the clock takes the values 1..MaxTime
MaxRefreshes == 2  \* refreshPiStatus gets past its guard at most MaxRefreshes times
MaxTargets == 3    \* pis in the view when Restart All Browsers is clicked
MaxSegments == 3   \* dot-separated segments of a generated version string
MaxUrls == 1       \* addUrl is called at most MaxUrls times

\* ------------------------------------------------------------- values
Null == 0              \* JavaScript null (ids and timestamps start at 1)
NullS == "null"        \* JavaScript null where the other values are strings
UndefS == "undefined"  \* an absent string-valued property
UndefN == -1           \* an absent number-valued property

Names == {"Office", "Lobby-Pi"}
IpList == <<"10.0.0.5", "10.0.0.6", "10.0.0.7", "10.0.0.8">>
Ips == {IpList[1], IpList[2]}
RoomNames == {"Lobby", "Hall"}
RoomIdInputs == 0..MaxRooms   \* Null or a room id a caller may pass

VARIABLES
    data,          \* CSSDatabase.data: pis, rooms, nextPiId, nextRoomId
    disk,          \* content of the JSON file at dbPath
    now,           \* the wall clock read by new Date()
    lastOp,        \* the call or step that produced this state, with what it returned
    pre,           \* CSSDatabase.data as it was before that step
    pis,           \* App state: the fleet view
    refreshing,    \* App state: a refresh is shown as running
    restartingAll, \* App state: a bulk restart is running
    cycles,        \* the refreshPiStatus calls in flight, oldest first
    bulk,          \* the handleRestartAllBrowsers call in flight, or Idle
    loading,       \* App state: the mount's loadData has not finished
    modal,         \* which dialog is shown; modalOpen is set and cleared with it
    autoRefreshEnabled, \* App state: the Auto-Refresh switch
    timerModalOpen,     \* modalOpen as the interval's refreshPiStatus closed over it
    handler,       \* the handleAddPi / handleRemovePi call awaiting its reply, or Idle
    addTimer,      \* handleAddPi's setTimeout(() => refreshPiStatus(), 100) is pending
    started        \* refreshPiStatus calls that got past the guard

dbVars == <<data, disk>>
pollVars == <<pis, refreshing, cycles>>
bulkVars == <<restartingAll, bulk>>
appVars == <<loading, modal, autoRefreshEnabled, timerModalOpen, handler, addTimer>>
uiVars == <<pollVars, bulkVars, appVars>>
vars == <<data, disk, now, lastOp, pre, uiVars, started>>

\* ------------------------------------------------------------- helpers
Range(s) == {s[i] : i \in 1..Len(s)}

\* Array.prototype.find / findIndex on an id: smallest index, 0 when none
FindIndex(s, id) ==
    IF \E i \in 1..Len(s) : s[i].id = id
    THEN CHOOSE i \in 1..Len(s) : s[i].id = id /\ \A j \in 1..(i-1) : s[j].id # id
    ELSE 0

\* Array.prototype.splice(index, 1)
Splice(s, index) == [i \in 1..(Len(s)-1) |-> IF i < index THEN s[i] ELSE s[i+1]]

\* JSON.stringify drops a property whose value is undefined
StringifyPi(p) ==
    IF p.name = UndefS
    THEN [k \in (DOMAIN p) \ {"name"} |-> p[k]]
    ELSE p

Stringify(d) ==
    [k \in DOMAIN d |->
        IF k = "pis" THEN [i \in 1..Len(d.pis) |-> StringifyPi(d.pis[i])] ELSE d[k]]

EmptyData == [pis |-> <<>>, rooms |-> <<>>, nextPiId |-> 1, nextRoomId |-> 1]

\* save(): one writeFileSync of the whole dataset
Save(d) == Stringify(d)

\* ------------------------------------------------------------- registry
\* the record addPi builds
NewPi(d, pi, t) ==
    [id |-> d.nextPiId,
     name |-> pi.name,
     ip_address |-> pi.ip_address,
     room_id |-> pi.room_id,    \* pi.room_id || null, Null being 0
     last_seen |-> Null,
     created_at |-> t]

addPiData(d, pi, t) ==
    [d EXCEPT !.pis = Append(d.pis, NewPi(d, pi, t)),
              !.nextPiId = d.nextPiId + 1]

\* updatePi without its "!== undefined" tests: every key is assigned
ApplyUpdatesAll(p, u) ==
    [p EXCEPT !.name = u.name,
              !.ip_address = u.ip_address,
              !.room_id = u.room_id,
              !.last_seen = u.last_seen]

\* the four conditional assignments of updatePi
ApplyUpdates(p, u) ==
    [p EXCEPT !.name = IF u.name # UndefS THEN u.name ELSE @,
              !.ip_address = IF u.ip_address # UndefS THEN u.ip_address ELSE @,
              !.room_id = IF u.room_id # UndefN THEN u.room_id ELSE @,
              !.last_seen = IF u.last_seen # UndefN THEN u.last_seen ELSE @]

updatePiData(d, id, u) ==
    LET i == FindIndex(d.pis, id) IN
    IF i = 0 THEN d
    ELSE [d EXCEPT !.pis[i] = ApplyUpdates(d.pis[i], u)]

removePiData(d, id) ==
    LET i == FindIndex(d.pis, id) IN
    IF i = 0 THEN d ELSE [d EXCEPT !.pis = Splice(d.pis, i)]

NewRoom(d, name, t) == [id |-> d.nextRoomId, name |-> name, created_at |-> t]

addRoomData(d, name, t) ==
    [d EXCEPT !.rooms = Append(d.rooms, NewRoom(d, name, t)),
              !.nextRoomId = d.nextRoomId + 1]

\* a find in place of the forEach: only the first pi of the room is cleared
ClearRoomFirstOnly(ps, id) ==
    [i \in 1..Len(ps) |->
        IF ps[i].room_id = id /\ \A j \in 1..(i-1) : ps[j].room_id # id
        THEN [ps[i] EXCEPT !.room_id = Null] ELSE ps[i]]

\* removeRoom's forEach: room_id = null on every pi of the room
ClearRoom(ps, id) ==
    [i \in 1..Len(ps) |->
        IF ps[i].room_id = id THEN [ps[i] EXCEPT !.room_id = Null] ELSE ps[i]]

removeRoomData(d, id) ==
    LET i == FindIndex(d.rooms, id) IN
    IF i = 0 THEN d
    ELSE [d EXCEPT !.pis = ClearRoom(d.pis, id), !.rooms = Splice(d.rooms, i)]

assignPiToRoomData(d, piId, roomId) ==
    LET i == FindIndex(d.pis, piId) IN
    IF i = 0 THEN d ELSE [d EXCEPT !.pis[i].room_id = roomId]

\* { ...f, ...g }
Spread(f, g) ==
    [k \in (DOMAIN f) \cup (DOMAIN g) |-> IF k \in DOMAIN g THEN g[k] ELSE f[k]]

\* getAllPis: each pi joined with its room's name
getAllPis(d) ==
    [i \in 1..Len(d.pis) |->
        LET r == FindIndex(d.rooms, d.pis[i].room_id) IN
        Spread(d.pis[i], [room_name |-> IF r = 0 THEN NullS ELSE d.rooms[r].name])]

\* ------------------------------------------------------------- actions
\* what the callers of the registry pass in the registry specification
PiInputs == [name : {"Office"}, ip_address : Ips, room_id : RoomIdInputs]

UpdateInputs ==
    [name : {UndefS},
     ip_address : Ips \cup {UndefS},
     room_id : RoomIdInputs \cup {UndefN},
     last_seen : {UndefN}]

PiIdInputs == 1..MaxPis       \* an id is unknown before its add and after its remove
RoomIdArgs == 1..MaxRooms
Idle == [active |-> FALSE]

Init ==
    /\ data = EmptyData
    /\ disk = Save(EmptyData)      \* constructor: load() finds no file and saves
    /\ now = 1
    /\ lastOp = [op |-> "constructor"]
    /\ pre = EmptyData
    /\ pis = <<>>
    /\ refreshing = FALSE
    /\ restartingAll = FALSE
    /\ cycles = <<>>
    /\ bulk = Idle
    /\ loading = TRUE
    /\ modal = "none"
    /\ autoRefreshEnabled = TRUE
    /\ timerModalOpen = FALSE     \* the interval is set at mount, modalOpen false
    /\ handler = Idle
    /\ addTimer = FALSE
    /\ started = 0

addPi(pi) ==
    /\ data.nextPiId <= MaxPis
    /\ data' = addPiData(data, pi, now)
    /\ disk' = Save(data')
    /\ lastOp' = [op |-> "addPi", arg |-> pi,
                  result |-> NewPi(data, pi, now),
                  error |-> "none", writes |-> 1]
    /\ pre' = data
    /\ UNCHANGED <<now, uiVars, started>>

updatePi(id, u) ==
    LET found == FindIndex(data.pis, id) # 0 IN
    /\ data' = updatePiData(data, id, u)
    /\ disk' = IF found THEN Save(data') ELSE disk
    /\ lastOp' = [op |-> "updatePi", id |-> id, arg |-> u,
                  result |-> found,
                  error |-> "none", writes |-> IF found THEN 1 ELSE 0]
    /\ pre' = data
    /\ UNCHANGED <<now, uiVars, started>>

removePi(id) ==
    LET found == FindIndex(data.pis, id) # 0 IN
    /\ data' = removePiData(data, id)
    /\ disk' = IF found THEN Save(data') ELSE disk
    /\ lastOp' = [op |-> "removePi", id |-> id,
                  result |-> found,
                  error |-> "none", writes |-> IF found THEN 1 ELSE 0]
    /\ pre' = data
    /\ UNCHANGED <<now, uiVars, started>>

addRoom(name) ==
    /\ data.nextRoomId <= MaxRooms
    /\ data' = addRoomData(data, name, now)
    /\ disk' = Save(data')
    /\ lastOp' = [op |-> "addRoom", arg |-> name,
                  result |-> NewRoom(data, name, now),
                  error |-> "none", writes |-> 1]
    /\ pre' = data
    /\ UNCHANGED <<now, uiVars, started>>

removeRoom(id) ==
    LET found == FindIndex(data.rooms, id) # 0 IN
    /\ data' = removeRoomData(data, id)
    /\ disk' = IF found THEN Save(data') ELSE disk
    /\ lastOp' = [op |-> "removeRoom", id |-> id,
                  result |-> found,
                  error |-> "none", writes |-> IF found THEN 1 ELSE 0]
    /\ pre' = data
    /\ UNCHANGED <<now, uiVars, started>>

assignPiToRoom(piId, roomId) ==
    LET found == FindIndex(data.pis, piId) # 0 IN
    /\ data' = assignPiToRoomData(data, piId, roomId)
    /\ disk' = IF found THEN Save(data') ELSE disk
    /\ lastOp' = [op |-> "assignPiToRoom", id |-> piId, arg |-> roomId,
                  result |-> found,
                  error |-> "none", writes |-> IF found THEN 1 ELSE 0]
    /\ pre' = data
    /\ UNCHANGED <<now, uiVars, started>>

Next ==
    \/ \E pi \in PiInputs : addPi(pi)
    \/ \E id \in PiIdInputs, u \in UpdateInputs : updatePi(id, u)
    \/ \E id \in PiIdInputs : removePi(id)
    \/ \E name \in RoomNames : addRoom(name)
    \/ \E id \in RoomIdArgs : removeRoom(id)
    \/ \E piId \in PiIdInputs, roomId \in RoomIdInputs : assignPiToRoom(piId, roomId)

Spec == Init /\ [][Next]_vars

\* ------------------------------------------------------------- reload
\* JSON.parse(content): the value with the properties the text holds
Parse(file) == file

\* a load that never reads the file
LoadIgnoresFile(file) == EmptyData

\* load() when the file exists: its parsed content, and the empty dataset when
\* reading or parsing throws
Load(file) ==
    IF "unreadable" \in DOMAIN file THEN EmptyData ELSE Parse(file)

\* the saved URLs of the store (the store's URL methods are called by the
\* db:getAllUrls, db:addUrl and db:removeUrl handlers)
Urls(d) == IF "urls" \in DOMAIN d THEN d.urls ELSE <<>>
NextUrlId(d) == IF "nextUrlId" \in DOMAIN d THEN d.nextUrlId ELSE 1

NewUrl(d, url, name, t) ==
    [id |-> NextUrlId(d), url |-> url, name |-> name, created_at |-> t]

addUrlData(d, url, name, t) ==
    Spread(d, [urls |-> Append(Urls(d), NewUrl(d, url, name, t)),
               nextUrlId |-> NextUrlId(d) + 1])

removeUrlData(d, id) ==
    LET i == FindIndex(Urls(d), id) IN
    IF i = 0 THEN d ELSE [d EXCEPT !.urls = Splice(d.urls, i)]

addUrl(url, name) ==
    /\ NextUrlId(data) <= MaxUrls
    /\ data' = addUrlData(data, url, name, now)
    /\ disk' = Save(data')
    /\ lastOp' = [op |-> "addUrl", result |-> NewUrl(data, url, name, now),
                  error |-> "none", writes |-> 1]
    /\ pre' = data
    /\ UNCHANGED <<now, uiVars, started>>

removeUrl(id) ==
    LET found == FindIndex(Urls(data), id) # 0 IN
    /\ data' = removeUrlData(data, id)
    /\ disk' = IF found THEN Save(data') ELSE disk
    /\ lastOp' = [op |-> "removeUrl", id |-> id, result |-> found,
                  error |-> "none", writes |-> IF found THEN 1 ELSE 0]
    /\ pre' = data
    /\ UNCHANGED <<now, uiVars, started>>

\* the application is started again: a new CSSDatabase is constructed over
\* the file the last session left
Restart ==
    /\ data' = Load(disk)
    /\ lastOp' = [op |-> "restart"]
    /\ pre' = data
    /\ UNCHANGED <<disk, now, uiVars, started>>

NextReload ==
    \/ \E pi \in PiInputs : addPi(pi)
    \/ \E id \in PiIdInputs, u \in UpdateInputs : updatePi(id, u)
    \/ \E id \in PiIdInputs : removePi(id)
    \/ \E name \in RoomNames : addRoom(name)
    \/ \E id \in RoomIdArgs : removeRoom(id)
    \/ \E piId \in PiIdInputs, roomId \in RoomIdInputs : assignPiToRoom(piId, roomId)
    \/ addUrl("http://example.org/menu", "Menu")
    \/ \E id \in 1..MaxUrls : removeUrl(id)
    \/ Restart

SpecReload == Init /\ [][NextReload]_vars

\* ------------------------------------------------------------- storage faults
\* a file writeFileSync left truncated or half written: JSON.parse throws on it
Unreadable == [unreadable |-> TRUE]

\* what the callers pass in the storage-fault specification
FaultPiInputs == {[name |-> "Office", ip_address |-> IpList[1], room_id |-> Null]}
FaultUpdateInputs ==
    {[name |-> UndefS, ip_address |-> IpList[2], room_id |-> UndefN, last_seen |-> UndefN]}
FaultRoomNames == {"Lobby"}
FaultRoomIdInputs == {Null, 1}

\* the mutating calls that reach save(), each with the dataset it saves
SavingCalls(d, t) ==
    {[op |-> "addPi", after |-> addPiData(d, pi, t)] :
        pi \in {q \in FaultPiInputs : d.nextPiId <= MaxPis}}
    \cup {[op |-> "updatePi", after |-> updatePiData(d, id, u)] :
        id \in {i \in PiIdInputs : FindIndex(d.pis, i) # 0}, u \in FaultUpdateInputs}
    \cup {[op |-> "removePi", after |-> removePiData(d, id)] :
        id \in {i \in PiIdInputs : FindIndex(d.pis, i) # 0}}
    \cup {[op |-> "addRoom", after |-> addRoomData(d, name, t)] :
        name \in {n \in FaultRoomNames : d.nextRoomId <= MaxRooms}}
    \cup {[op |-> "removeRoom", after |-> removeRoomData(d, id)] :
        id \in {i \in RoomIdArgs : FindIndex(d.rooms, i) # 0}}
    \cup {[op |-> "assignPiToRoom", after |-> assignPiToRoomData(d, piId, roomId)] :
        piId \in {i \in PiIdInputs : FindIndex(d.pis, i) # 0},
        roomId \in FaultRoomIdInputs}

\* what a failed writeFileSync leaves: the old file when the open failed
\* (permission denied), a truncated one when the write failed (disk full)
FailedWrites(file) == {file, Unreadable}

\* what a process killed inside save() leaves: the old file, a truncated or
\* half-written one, or the new file
InterruptedWrites(file, d) == {file, Unreadable, Save(d)}

\* what the caller of a mutating call sees when its save() failed: save()
\* catches the error and logs it, the call returns its usual result
SaveError == "none"

\* a mutating call whose writeFileSync throws; faults are taken one at a
\* time, on a store whose file matches its memory
SaveFails ==
    \E c \in SavingCalls(data, now) : \E f \in FailedWrites(disk) :
        /\ disk = Save(data)
        /\ data' = c.after
        /\ disk' = f
        /\ lastOp' = [op |-> c.op, error |-> SaveError, writes |-> 0,
                      writeFailed |-> TRUE]
        /\ pre' = data
        /\ UNCHANGED <<now, uiVars, started>>

\* the process is killed while a mutating call is in save(), and the
\* application is started again
CrashDuringSave ==
    \E c \in SavingCalls(data, now) : \E f \in InterruptedWrites(disk, c.after) :
        /\ disk = Save(data)
        /\ disk' = f
        /\ data' = Load(f)
        /\ lastOp' = [op |-> "crashRestart", call |-> c.op, after |-> c.after,
                      onDisk |-> Load(disk)]
        /\ pre' = data
        /\ UNCHANGED <<now, uiVars, started>>

NextFaults ==
    \/ \E pi \in FaultPiInputs : addPi(pi)
    \/ \E id \in PiIdInputs, u \in FaultUpdateInputs : updatePi(id, u)
    \/ \E id \in PiIdInputs : removePi(id)
    \/ \E name \in FaultRoomNames : addRoom(name)
    \/ \E id \in RoomIdArgs : removeRoom(id)
    \/ \E piId \in PiIdInputs, roomId \in FaultRoomIdInputs : assignPiToRoom(piId, roomId)
    \/ SaveFails
    \/ CrashDuringSave
    \/ Restart

SpecFaults == Init /\ [][NextFaults]_vars

\* ------------------------------------------------------------- node client
\* what the agent at http://ip:5000 does with one request
StatusPayloads == {[version |-> "1.2.0", cpu_percent |-> 12]}
ErrorMessages == {"timeout of 5000ms exceeded", "connect ECONNREFUSED"}
AgentOutcomes ==
    {[kind |-> "ok", data |-> d] : d \in StatusPayloads}
        \cup {[kind |-> "error", message |-> m] : m \in ErrorMessages}

Rejected == [rejected |-> TRUE]    \* a promise that rejects
Pending == [pending |-> TRUE]      \* a promise not settled yet

\* getPiStatus without its try/catch: the axios error reaches the caller
getPiStatusNoCatch(outcome) ==
    IF outcome.kind = "ok"
    THEN [success |-> TRUE, data |-> outcome.data]
    ELSE Rejected

\* getPiStatus of the main process: axios.get with a 5 s timeout in try/catch
getPiStatus(outcome) ==
    IF outcome.kind = "ok"
    THEN [success |-> TRUE, data |-> outcome.data]
    ELSE [success |-> FALSE, error |-> outcome.message]

\* ------------------------------------------------------------- poll cycle
modalOpen == modal # "none"

\* a write that stores the name the agent reports next to last_seen
LastSeenAndName(t) ==
    [name |-> "Pi-raspberrypi", ip_address |-> UndefS, room_id |-> UndefN,
     last_seen |-> t]

LastSeenOnly(t) ==
    [name |-> UndefS, ip_address |-> UndefS, room_id |-> UndefN, last_seen |-> t]

\* a map callback that writes back the pi it read when the cycle started
PollWriteSnapshot(d, pi, result, t) ==
    IF "rejected" \notin DOMAIN result /\ result.success
    THEN updatePiData(d, pi.id, [name |-> pi.name, ip_address |-> pi.ip_address,
                                 room_id |-> pi.room_id, last_seen |-> t])
    ELSE d

\* the registry after one map callback: updatePi(pi.id, {last_seen}) on success
PollWrite(d, pi, result, t) ==
    IF "rejected" \notin DOMAIN result /\ result.success
    THEN updatePiData(d, pi.id, LastSeenOnly(t))
    ELSE d

\* what one map callback resolves to
PollEntry(pi, result) ==
    IF "rejected" \in DOMAIN result THEN Rejected
    ELSE IF result.success
         THEN Spread(Spread(pi, result.data), [online |-> TRUE])
         ELSE Spread(pi, [online |-> FALSE, error |-> result.error])

\* currentPis and the promises of currentPis.map(...), none settled yet;
\* ids records the ids the registry holds at that moment, n which call of
\* refreshPiStatus this is, counted from the mount
NewCycle(d) ==
    [snap |-> getAllPis(d),
     res |-> [i \in 1..Len(getAllPis(d)) |-> Pending],
     ids |-> [i \in 1..Len(d.pis) |-> d.pis[i].id],
     n |-> started + 1]

\* a race in place of the all: the first callback to settle ends the wait
SettledAny(c) == Len(c.res) = 0 \/ \E i \in 1..Len(c.res) : c.res[i] # Pending
Settled(c) == \A i \in 1..Len(c.res) : c.res[i] # Pending
AnyRejected(c) == \E i \in 1..Len(c.res) : c.res[i] = Rejected

\* refreshPiStatus(force) up to the map: the guard, setRefreshing(true),
\* getAllPis, and one getPiStatus call issued per pi.  mo is modalOpen as the
\* calling closure sees it.
refreshPiStatus(force, mo, trigger) ==
    IF ~force /\ mo
    THEN /\ lastOp' = [op |-> "refreshSkipped", trigger |-> trigger]
         /\ UNCHANGED <<pollVars, started>>
    ELSE /\ started < MaxRefreshes
         /\ started' = started + 1
         /\ refreshing' = TRUE
         /\ cycles' = Append(cycles, NewCycle(data))
         /\ lastOp' = [op |-> "refreshStart", trigger |-> trigger]
         /\ UNCHANGED pis

\* the interval of the mount effect fires: refreshPiStatus() without force
TimerRefresh ==
    /\ autoRefreshEnabled
    /\ refreshPiStatus(FALSE, timerModalOpen, "timer")
    /\ pre' = data
    /\ UNCHANGED <<dbVars, now, bulkVars, appVars>>

\* the Refresh button, disabled while refreshing and covered while a dialog shows
ButtonRefresh ==
    /\ ~loading /\ ~refreshing /\ modal = "none"
    /\ refreshPiStatus(TRUE, modalOpen, "button")
    /\ pre' = data
    /\ UNCHANGED <<dbVars, now, bulkVars, appVars>>

\* the mount effect: loadData sets the view from the registry and refreshes
LoadData ==
    /\ loading
    /\ started < MaxRefreshes
    /\ started' = started + 1
    /\ loading' = FALSE
    /\ pis' = getAllPis(data)
    /\ refreshing' = TRUE
    /\ cycles' = Append(cycles, NewCycle(data))
    /\ lastOp' = [op |-> "refreshStart", trigger |-> "loadData"]
    /\ pre' = data
    /\ UNCHANGED <<dbVars, now, bulkVars, modal, autoRefreshEnabled,
                   timerModalOpen, handler, addTimer>>

\* one map callback of cycle c: the status call of entry i settles, and on
\* success updatePi(pi.id, {last_seen: now}) is sent and handled
StatusSettles(c, i, outcome) ==
    LET pi == cycles[c].snap[i]
        result == getPiStatus(outcome)
        found == FindIndex(data.pis, pi.id) # 0
        sent == "rejected" \notin DOMAIN result /\ result.success
    IN
    /\ cycles[c].res[i] = Pending
    /\ data' = PollWrite(data, pi, result, now)
    /\ disk' = IF sent /\ found THEN Save(data') ELSE disk
    /\ cycles' = [cycles EXCEPT ![c].res[i] = PollEntry(pi, result)]
    /\ lastOp' = [op |-> "statusSettles", c |-> c, i |-> i, id |-> pi.id,
                  ok |-> outcome.kind = "ok"]
    /\ pre' = data
    /\ UNCHANGED <<started, now, pis, refreshing, bulkVars, appVars>>

\* Promise.all of cycle c settles: setPis(updatedPis), setRefreshing(false);
\* when a callback rejected, refreshPiStatus throws before both
PollFinish(c) ==
    /\ Settled(cycles[c])
    /\ IF AnyRejected(cycles[c])
       THEN UNCHANGED <<pis, refreshing>>
       ELSE pis' = cycles[c].res /\ refreshing' = FALSE
    /\ cycles' = Splice(cycles, c)
    /\ lastOp' = [op |-> "pollFinish", published |-> ~AnyRejected(cycles[c]),
                  ids |-> cycles[c].ids, n |-> cycles[c].n]
    /\ pre' = data
    /\ UNCHANGED <<started, dbVars, now, bulkVars, appVars>>

Tick ==
    /\ now < MaxTime
    /\ now' = now + 1
    /\ lastOp' = [op |-> "tick"]
    /\ pre' = data
    /\ UNCHANGED <<started, dbVars, uiVars>>

\* ------------------------------------------------------------- add and remove
\* the Add Pi button
OpenAddDialog ==
    /\ ~loading /\ modal = "none" /\ handler = Idle
    /\ modal' = "add"
    /\ lastOp' = [op |-> "openAddDialog"]
    /\ pre' = data
    /\ UNCHANGED <<started, dbVars, now, pollVars, bulkVars, loading, autoRefreshEnabled,
                   timerModalOpen, handler, addTimer>>

\* AddPiDialog's submit: handleAddPi up to its await of window.api.addPi
HandleAddPi(ip) ==
    /\ modal = "add" /\ handler = Idle
    /\ data.nextPiId <= MaxPis
    /\ LET pi == [name |-> "Office", ip_address |-> ip, room_id |-> Null] IN
       /\ data' = addPiData(data, pi, now)
       /\ disk' = Save(data')
       /\ handler' = [kind |-> "add", pis |-> pis, newPi |-> NewPi(data, pi, now)]
       /\ lastOp' = [op |-> "addPi", arg |-> pi, result |-> NewPi(data, pi, now),
                     error |-> "none", writes |-> 1]
    /\ pre' = data
    /\ UNCHANGED <<started, now, pollVars, bulkVars, loading, modal, autoRefreshEnabled,
                   timerModalOpen, addTimer>>

\* handleAddPi after the await: the view of its closure plus the new pi
AddPiReply ==
    /\ handler # Idle /\ handler.kind = "add"
    /\ pis' = Append(handler.pis, handler.newPi)
    /\ modal' = "none"
    /\ addTimer' = TRUE
    /\ handler' = Idle
    /\ lastOp' = [op |-> "addPiReply"]
    /\ pre' = data
    /\ UNCHANGED <<started, dbVars, now, refreshing, cycles, bulkVars, loading,
                   autoRefreshEnabled, timerModalOpen>>

\* the timeout of handleAddPi: refreshPiStatus() of the closure that showed
\* the dialog, where modalOpen is true
AddPiTimeout ==
    /\ addTimer
    /\ addTimer' = FALSE
    /\ refreshPiStatus(FALSE, TRUE, "afterAdd")
    /\ pre' = data
    /\ UNCHANGED <<dbVars, now, bulkVars, loading, modal, autoRefreshEnabled,
                   timerModalOpen, handler>>

\* a card's Remove button, confirmed: handleRemovePi up to its await
HandleRemovePi(id) ==
    /\ ~loading /\ modal = "none" /\ handler = Idle
    /\ \E i \in 1..Len(pis) : pis[i].id = id
    /\ data' = removePiData(data, id)
    /\ disk' = IF data' # data THEN Save(data') ELSE disk
    /\ handler' = [kind |-> "remove", pis |-> pis, id |-> id]
    /\ lastOp' = [op |-> "removePi", id |-> id, result |-> data' # data,
                  error |-> "none", writes |-> IF data' # data THEN 1 ELSE 0]
    /\ pre' = data
    /\ UNCHANGED <<started, now, pollVars, bulkVars, loading, modal, autoRefreshEnabled,
                   timerModalOpen, addTimer>>

\* handleRemovePi after the await: the view of its closure without the pi
RemovePiReply ==
    /\ handler # Idle /\ handler.kind = "remove"
    /\ pis' = SelectSeq(handler.pis, LAMBDA p : p.id # handler.id)
    /\ handler' = Idle
    /\ lastOp' = [op |-> "removePiReply"]
    /\ pre' = data
    /\ UNCHANGED <<started, dbVars, now, refreshing, cycles, bulkVars, loading, modal,
                   autoRefreshEnabled, timerModalOpen, addTimer>>

NextPoll ==
    \/ LoadData
    \/ TimerRefresh
    \/ ButtonRefresh
    \/ \E c \in 1..Len(cycles) : \E i \in 1..Len(cycles[c].res) :
           \E outcome \in AgentOutcomes : StatusSettles(c, i, outcome)
    \/ \E c \in 1..Len(cycles) : PollFinish(c)
    \/ Tick
    \/ OpenAddDialog
    \/ \E ip \in Ips : HandleAddPi(ip)
    \/ AddPiReply
    \/ AddPiTimeout
    \/ \E id \in PiIdInputs : HandleRemovePi(id)
    \/ RemovePiReply

\* a store an earlier session saved: k pis added, none polled yet
Stored(k) ==
    [pis |-> [i \in 1..k |-> [id |-> i, name |-> "Office",
                 ip_address |-> IpList[i],
                 room_id |-> Null, last_seen |-> Null, created_at |-> 1]],
     rooms |-> <<>>, nextPiId |-> k + 1, nextRoomId |-> 1]

\* the constructor's load() reads the file of an earlier session
InitPoll ==
    /\ \E k \in 0..MaxPis : data = Stored(k)
    /\ disk = Save(data)
    /\ now = 1
    /\ lastOp = [op |-> "constructor"]
    /\ pre = data
    /\ pis = <<>>
    /\ refreshing = FALSE
    /\ restartingAll = FALSE
    /\ cycles = <<>>
    /\ bulk = Idle
    /\ loading = TRUE
    /\ modal = "none"
    /\ autoRefreshEnabled = TRUE
    /\ timerModalOpen = FALSE
    /\ handler = Idle
    /\ addTimer = FALSE
    /\ started = 0

SpecPoll == InitPoll /\ [][NextPoll]_vars

\* ------------------------------------------------------------- bulk restart
\* what becomes of one window.api.restartPiBrowser(ip): the agent answers, the
\* request fails or gets no answer within the timeout, or the invoke rejects
RestartOutcomes ==
    {[kind |-> "ok", data |-> [status |-> "restarted"]]}
        \cup {[kind |-> "error", message |-> m] : m \in ErrorMessages}
        \cup {[kind |-> "throw"]}

Thrown == [thrown |-> TRUE]

\* restartBrowser of the main process behind ipcRenderer.invoke
restartBrowser(outcome) ==
    IF outcome.kind = "throw" THEN Thrown
    ELSE IF outcome.kind = "ok"
         THEN [success |-> TRUE, data |-> outcome.data]
         ELSE [success |-> FALSE, error |-> outcome.message]

\* a loop body whose catch counts nothing
CountLostOnThrow(b, result) ==
    IF result = Thrown THEN b
    ELSE IF result.success
         THEN [b EXCEPT !.successCount = @ + 1]
         ELSE [b EXCEPT !.failCount = @ + 1]

\* a loop without try/catch: a throwing call ends the loop
CountStopsOnThrow(b, result) ==
    IF result = Thrown THEN [b EXCEPT !.i = Len(b.onlinePis)]
    ELSE IF result.success
         THEN [b EXCEPT !.successCount = @ + 1]
         ELSE [b EXCEPT !.failCount = @ + 1]

\* the try/catch in the loop body of handleRestartAllBrowsers
Count(b, result) ==
    IF result = Thrown THEN [b EXCEPT !.failCount = @ + 1]
    ELSE IF result.success
         THEN [b EXCEPT !.successCount = @ + 1]
         ELSE [b EXCEPT !.failCount = @ + 1]

\* which counter an iteration incremented
Counted(b, after) ==
    IF after.successCount = b.successCount + 1 /\ after.failCount = b.failCount
    THEN "success"
    ELSE IF after.failCount = b.failCount + 1 /\ after.successCount = b.successCount
         THEN "fail"
         ELSE "none"

\* the restartBrowser calls the loop has issued so far: the iterations done
\* and the one whose await is outstanding
Issued(b) == IF b.i <= Len(b.onlinePis) THEN b.i ELSE Len(b.onlinePis)

OnlinePis(view) == SelectSeq(view, LAMBDA pi : pi.online)

\* the Restart All Browsers button, enabled while some pi of the view is
\* online and no bulk restart runs: handleRestartAllBrowsers up to its
\* first await, or up to the return after a declined confirm
RestartAllClick(confirmed) ==
    /\ ~loading /\ modal = "none"
    /\ ~restartingAll
    /\ Len(OnlinePis(pis)) # 0
    /\ IF confirmed
       THEN /\ restartingAll' = TRUE
            /\ bulk' = [active |-> TRUE, onlinePis |-> OnlinePis(pis), i |-> 1,
                        successCount |-> 0, failCount |-> 0, handled |-> <<>>]
            /\ lastOp' = [op |-> "restartAllStart"]
       ELSE /\ UNCHANGED bulkVars
            /\ lastOp' = [op |-> "restartAllDeclined"]
    /\ pre' = data
    /\ UNCHANGED <<started, dbVars, now, pollVars, appVars>>

\* one iteration of the for loop: the awaited restartBrowser call of the
\* current pi settles and is counted; handled records which pi it was
RestartSettles(outcome) ==
    /\ bulk # Idle
    /\ bulk.i <= Len(bulk.onlinePis)
    /\ LET b == Count(bulk, restartBrowser(outcome)) IN
       bulk' = [b EXCEPT
                   !.i = @ + 1,
                   !.handled = Append(@, [id |-> bulk.onlinePis[bulk.i].id,
                                          kind |-> outcome.kind,
                                          counted |-> Counted(bulk, b)])]
    /\ lastOp' = [op |-> "restartSettles", id |-> bulk.onlinePis[bulk.i].id]
    /\ pre' = data
    /\ UNCHANGED <<started, dbVars, now, pollVars, restartingAll, appVars>>

\* after the loop: setRestartingAll(false) and the alert with the summary
RestartAllDone ==
    /\ bulk # Idle
    /\ bulk.i > Len(bulk.onlinePis)
    /\ restartingAll' = FALSE
    /\ bulk' = Idle
    /\ lastOp' = [op |-> "restartAllDone",
                  targets |-> [k \in 1..Len(bulk.onlinePis) |-> bulk.onlinePis[k].id],
                  successCount |-> bulk.successCount,
                  failCount |-> bulk.failCount,
                  handled |-> bulk.handled,
                  alert |-> IF bulk.failCount = 0 THEN "restarted" ELSE "restarted, failed"]
    /\ pre' = data
    /\ UNCHANGED <<started, dbVars, now, pollVars, appVars>>

NextBulk ==
    \/ \E confirmed \in BOOLEAN : RestartAllClick(confirmed)
    \/ \E outcome \in RestartOutcomes : RestartSettles(outcome)
    \/ RestartAllDone
    \/ TimerRefresh
    \/ ButtonRefresh
    \/ \E c \in 1..Len(cycles) : \E i \in 1..Len(cycles[c].res) :
           \E outcome \in AgentOutcomes : StatusSettles(c, i, outcome)
    \/ \E c \in 1..Len(cycles) : PollFinish(c)

\* the registry and the view after the mount's poll cycle at time 1 over a
\* stored registry of k pis, o[i] being what the status call of pi i met
Polled(k, o) ==
    [data |-> [Stored(k) EXCEPT !.pis =
                  [i \in 1..k |-> IF o[i].kind = "ok"
                                  THEN [Stored(k).pis[i] EXCEPT !.last_seen = 1]
                                  ELSE Stored(k).pis[i]]],
     pis |-> [i \in 1..k |-> PollEntry(getAllPis(Stored(k))[i], getPiStatus(o[i]))]]

InitBulk ==
    /\ \E k \in 0..MaxTargets : \E o \in [1..k -> AgentOutcomes] :
           /\ data = Polled(k, o).data
           /\ pis = Polled(k, o).pis
    /\ disk = Save(data)
    /\ now = 1
    /\ lastOp = [op |-> "pollFinish", published |-> TRUE,
                 ids |-> [i \in 1..Len(data.pis) |-> data.pis[i].id], n |-> 1]
    /\ pre = data
    /\ refreshing = FALSE
    /\ restartingAll = FALSE
    /\ cycles = <<>>
    /\ bulk = Idle
    /\ loading = FALSE
    /\ modal = "none"
    /\ autoRefreshEnabled = TRUE
    /\ timerModalOpen = FALSE
    /\ handler = Idle
    /\ addTimer = FALSE
    /\ started = 1

SpecBulk == InitBulk /\ [][NextBulk]_vars

\* ------------------------------------------------------------- versions
\* A JavaScript string is the sequence of its characters; a value that may be
\* null carries a flag.
Str(cs) == [null |-> FALSE, chars |-> cs]
NullV == [null |-> TRUE, chars |-> <<>>]
Falsy(v) == v.null \/ v.chars = <<>>       \* !v for null and for ''

DigitChars == <<"0", "1", "2", "3", "4", "5", "6", "7", "8", "9">>
Unknown == Str(<<"u", "n", "k", "n", "o", "w", "n">>)

\* String(n) of a natural number
RECURSIVE Format(_)
Format(n) ==
    IF n < 10 THEN <<DigitChars[n + 1]>>
    ELSE Format(n \div 10) \o <<DigitChars[(n % 10) + 1]>>

\* segs.join('.')
RECURSIVE Join(_)
Join(segs) ==
    IF Len(segs) = 0 THEN <<>>
    ELSE IF Len(segs) = 1 THEN Format(segs[1])
    ELSE Format(segs[1]) \o <<".">> \o Join(Tail(segs))

\* cs.split('.')
RECURSIVE SplitDot(_, _)
SplitDot(cs, cur) ==
    IF Len(cs) = 0 THEN <<cur>>
    ELSE IF cs[1] = "." THEN <<cur>> \o SplitDot(Tail(cs), <<>>)
    ELSE SplitDot(Tail(cs), Append(cur, cs[1]))

NaN == -1    \* Number(...) of a string that is no numeral, and undefined

DigitValue(ch) ==
    IF \E d \in 1..10 : DigitChars[d] = ch
    THEN (CHOOSE d \in 1..10 : DigitChars[d] = ch) - 1
    ELSE NaN

\* a conversion that reads only the first character
NumberFirstDigit(cs) == IF Len(cs) = 0 THEN 0 ELSE DigitValue(cs[1])

\* Number(s) for a string of the characters modelled: '' is 0, a run of
\* digits is its decimal value, anything else NaN
RECURSIVE NumberAcc(_, _)
NumberAcc(cs, acc) ==
    IF Len(cs) = 0 THEN acc
    ELSE IF DigitValue(cs[1]) = NaN THEN NaN
    ELSE NumberAcc(Tail(cs), acc * 10 + DigitValue(cs[1]))

Number(cs) == NumberAcc(cs, 0)

\* a > b of JavaScript numbers: false when either is NaN or undefined
Gt(a, b) == a # NaN /\ b # NaN /\ a > b

\* element k of the destructured split(...).map(Number), undefined when absent
Seg(v, k) ==
    LET parts == SplitDot(v.chars, <<>>)
    IN  IF k <= Len(parts) THEN Number(parts[k]) ELSE NaN

\* getUpdateType testing latest before current
getUpdateTypeLatestFirst(current, latest) ==
    IF Falsy(latest) THEN "no-check"
    ELSE IF Falsy(current) \/ current = Unknown THEN "no-version"
    ELSE IF current = latest THEN NullS
    ELSE IF Gt(Seg(latest, 1), Seg(current, 1)) THEN "major"
    ELSE IF Gt(Seg(latest, 2), Seg(current, 2)) THEN "minor"
    ELSE "patch"

getUpdateType(current, latest) ==
    IF Falsy(current) \/ current = Unknown THEN "no-version"
    ELSE IF Falsy(latest) THEN "no-check"
    ELSE IF current = latest THEN NullS
    ELSE IF Gt(Seg(latest, 1), Seg(current, 1)) THEN "major"
    ELSE IF Gt(Seg(latest, 2), Seg(current, 2)) THEN "minor"
    ELSE "patch"

\* the values pi.version and latestVersion are drawn from: null, '', the
\* sentinel, a string that is no version, and versions written from numbers
SegValues == {0, 1, 2, 9, 10}
SegLists ==
    UNION {[1..n -> SegValues] : n \in 1..MaxSegments}
        \cup {<<1, 5, 0>>, <<1, 2, 7>>}
VersionInputs ==
    {[kind |-> "null", segs |-> <<>>, str |-> NullV],
     [kind |-> "empty", segs |-> <<>>, str |-> Str(<<>>)],
     [kind |-> "unknown", segs |-> <<>>, str |-> Unknown],
     [kind |-> "other", segs |-> <<>>, str |-> Str(<<"v", "1", ".", "2">>)]}
        \cup {[kind |-> "version", segs |-> sg, str |-> Str(Join(sg))] : sg \in SegLists}

\* a PiCard is about to render with pi.version and latestVersion
InitVersion ==
    /\ \E c \in VersionInputs, l \in VersionInputs :
           lastOp = [op |-> "renderCard", current |-> c, latest |-> l]
    /\ data = EmptyData
    /\ disk = Save(data)
    /\ now = 1
    /\ pre = data
    /\ pis = <<>>
    /\ refreshing = FALSE
    /\ restartingAll = FALSE
    /\ cycles = <<>>
    /\ bulk = Idle
    /\ loading = FALSE
    /\ modal = "none"
    /\ autoRefreshEnabled = TRUE
    /\ timerModalOpen = FALSE
    /\ handler = Idle
    /\ addTimer = FALSE
    /\ started = 0

\* PiCard calls getUpdateType(pi.version, latestVersion)
Classify ==
    /\ lastOp.op = "renderCard"
    /\ lastOp' = [op |-> "getUpdateType", current |-> lastOp.current,
                  latest |-> lastOp.latest,
                  result |-> getUpdateType(lastOp.current.str, lastOp.latest.str)]
    /\ pre' = data
    /\ UNCHANGED <<started, dbVars, now, uiVars>>

NextVersion == Classify

SpecVersion == InitVersion /\ [][NextVersion]_vars

\* ------------------------------------------------------------- edits
\* what PiSettingsDialog.handleSaveGeneral sends: assignPiToRoom(pi.id, room)
\* and updatePi(pi.id, { name })
EditUpdates ==
    {[name |-> "Lobby-Pi", ip_address |-> UndefS, room_id |-> UndefN, last_seen |-> UndefN]}
EditRooms == {1}

NextEdit ==
    \/ LoadData
    \/ \E c \in 1..Len(cycles) : \E i \in 1..Len(cycles[c].res) :
           \E outcome \in AgentOutcomes : StatusSettles(c, i, outcome)
    \/ \E c \in 1..Len(cycles) : PollFinish(c)
    \/ Tick
    \/ \E id \in PiIdInputs, u \in EditUpdates : updatePi(id, u)
    \/ \E piId \in PiIdInputs, roomId \in EditRooms : assignPiToRoom(piId, roomId)

SpecEdit == InitPoll /\ [][NextEdit]_vars

\* ------------------------------------------------------------- client calls
\* what one axios.get to http://ip:5000/api/status ends in. class is what
\* happened on the wire; kind tells whether the axios promise resolved ("ok")
\* or rejected ("error"); a rejection carries code and message, and the
\* response (status, data.error) when the agent answered with an error status
HttpStatuses == {400, 404, 500}
AgentErrors == {"Browser not running", "Invalid URL", "Permission denied"}
MalformedBodies == {[raw |-> "<html>Bad Gateway</html>"], [raw |-> "{\"version\":"]}
ClientOutcomes ==
    {[class |-> "ok", kind |-> "ok", data |-> d] : d \in StatusPayloads}
        \cup {[class |-> "malformed", kind |-> "ok", data |-> b] : b \in MalformedBodies}
        \cup {[class |-> "timeout", kind |-> "error", code |-> "ECONNABORTED",
               message |-> <<"timeout of 5000ms exceeded">>],
              [class |-> "refused", kind |-> "error", code |-> "ECONNREFUSED",
               message |-> <<"connect ECONNREFUSED">>],
              [class |-> "unreachable", kind |-> "error", code |-> "EHOSTUNREACH",
               message |-> <<"connect EHOSTUNREACH">>]}
        \cup {[class |-> "remote", kind |-> "error", code |-> "ERR_BAD_RESPONSE",
               message |-> <<"Request failed with status code", s>>,
               status |-> s, error |-> e] : s \in HttpStatuses, e \in AgentErrors}

\* the renderer is about to call ApiService.getPiStatus(ip)
InitClient ==
    /\ \E ip \in Range(IpList), o \in ClientOutcomes :
           lastOp = [op |-> "request", ip |-> ip, outcome |-> o]
    /\ data = EmptyData
    /\ disk = Save(data)
    /\ now = 1
    /\ pre = data
    /\ pis = <<>>
    /\ refreshing = FALSE
    /\ restartingAll = FALSE
    /\ cycles = <<>>
    /\ bulk = Idle
    /\ loading = FALSE
    /\ modal = "none"
    /\ autoRefreshEnabled = TRUE
    /\ timerModalOpen = FALSE
    /\ handler = Idle
    /\ addTimer = FALSE
    /\ started = 0

\* ipcMain.handle('pi:getStatus') runs getPiStatus(ip) and the reply settles
ClientCall ==
    /\ lastOp.op = "request"
    /\ lastOp' = [op |-> "getPiStatus", ip |-> lastOp.ip, outcome |-> lastOp.outcome,
                  result |-> getPiStatus(lastOp.outcome)]
    /\ pre' = data
    /\ UNCHANGED <<started, dbVars, now, uiVars>>

NextClient == ClientCall

SpecClient == InitClient /\ [][NextClient]_vars

\* ------------------------------------------------------------- cycle progress
\* the poll cycle alone: its three triggers, the map callbacks, the merge
NextCycle ==
    \/ LoadData
    \/ TimerRefresh
    \/ ButtonRefresh
    \/ \E c \in 1..Len(cycles) : \E i \in 1..Len(cycles[c].res) :
           \E outcome \in AgentOutcomes : StatusSettles(c, i, outcome)
    \/ \E c \in 1..Len(cycles) : PollFinish(c)

\* axios.get carries timeout: 5000, so every status call issued settles; the
\* continuation of a settled Promise.all is run by the event loop
CycleFairness ==
    /\ \A c \in 1..MaxRefreshes : \A i \in 1..MaxPis :
           WF_vars(/\ c \in DOMAIN cycles
                   /\ i \in DOMAIN cycles[c].res
                   /\ \E outcome \in AgentOutcomes : StatusSettles(c, i, outcome))
    /\ \A c \in 1..MaxRefreshes :
           WF_vars(c \in DOMAIN cycles /\ PollFinish(c))

SpecCycleFair == InitPoll /\ [][NextCycle]_vars /\ CycleFairness

\* ------------------------------------------------------------- updates
\* updatePi(id, updates) with every combination of present and absent keys
AllUpdates ==
    [name : {UndefS, "Lobby-Pi"},
     ip_address : Ips \cup {UndefS},
     room_id : RoomIdInputs \cup {UndefN},
     last_seen : {UndefN, MaxTime}]

NextUpdate ==
    \/ \E id \in PiIdInputs, u \in AllUpdates : updatePi(id, u)
    \/ \E id \in PiIdInputs : removePi(id)

SpecUpdate == InitPoll /\ [][NextUpdate]_vars

\* ------------------------------------------------------------- merge
\* status payloads by their keys: telemetry alone, the agent's configured
\* name and room next to it, and keys the registry's record has as well
MergePayloads ==
    {[version |-> "1.2.0", cpu_percent |-> 12],
     [version |-> "1.2.0", name |-> "Pi-raspberrypi", room |-> "Hall"],
     [version |-> "1.2.0", name |-> "Pi-raspberrypi", room_id |-> 2],
     [version |-> "1.2.0", id |-> 9, ip_address |-> "10.0.0.9"]}
MergeOutcomes ==
    {[kind |-> "ok", data |-> d] : d \in MergePayloads}
        \cup {[kind |-> "error", message |-> m] : m \in ErrorMessages}

NextMerge ==
    \/ LoadData
    \/ \E c \in 1..Len(cycles) : \E i \in 1..Len(cycles[c].res) :
           \E outcome \in MergeOutcomes : StatusSettles(c, i, outcome)
    \/ \E c \in 1..Len(cycles) : PollFinish(c)

SpecMerge == InitPoll /\ [][NextMerge]_vars

\* ------------------------------------------------------------- claims
IpsOf(ps) == {ps[i].ip_address : i \in 1..Len(ps)}
RoomNamesOf(rs) == {rs[i].name : i \in 1..Len(rs)}
RoomIdsOf(rs) == {rs[i].id : i \in 1..Len(rs)}

\* C1: in every reachable state of the registry no two live nodes have the
\* same ip_address.
C1_UniqueAddresses ==
    \A i, j \in 1..Len(data.pis) :
        i # j => data.pis[i].ip_address # data.pis[j].ip_address

\* C2: addPi with an ip_address a live node already has returns the
\* DuplicateAddress error and leaves the node list, the id counter and the
\* persisted file as they were before the call.
C2_DuplicateAddRejected ==
    (lastOp.op = "addPi" /\ lastOp.arg.ip_address \in IpsOf(pre.pis))
        => /\ lastOp.error = "DuplicateAddress"
           /\ data = pre
           /\ disk = Save(pre)

\* C3: updatePi of an existing node whose new ip_address is the address of a
\* different live node fails with DuplicateAddress and applies none of the
\* provided fields.
C3_DuplicateUpdateRejected ==
    (/\ lastOp.op = "updatePi"
     /\ FindIndex(pre.pis, lastOp.id) # 0
     /\ Cardinality(IpsOf(pre.pis)) = Len(pre.pis)   \* the addresses were unique
     /\ \E i \in 1..Len(pre.pis) :
            /\ pre.pis[i].id # lastOp.id
            /\ pre.pis[i].ip_address = lastOp.arg.ip_address)
        => /\ lastOp.error = "DuplicateAddress"
           /\ data = pre

\* C4: group names are unique in every reachable state, and addRoom with a
\* name an existing group has fails with DuplicateName and leaves the group
\* list, the group id counter and the persisted file unchanged.
C4_UniqueRoomNames ==
    /\ \A i, j \in 1..Len(data.rooms) :
           i # j => data.rooms[i].name # data.rooms[j].name
    /\ (lastOp.op = "addRoom" /\ lastOp.arg \in RoomNamesOf(pre.rooms))
           => /\ lastOp.error = "DuplicateName"
              /\ data = pre
              /\ disk = Save(pre)

\* C5: removeRoom(G) of an existing group G succeeds; every node that
\* referenced G is still present with room_id = null and is otherwise
\* unchanged, every other node is unchanged, no node is deleted, G is no
\* longer among the rooms, and the file is written once, holding both the
\* clearing and the deletion.
C5_RemoveRoomClearsReferences ==
    (lastOp.op = "removeRoom" /\ lastOp.id \in RoomIdsOf(pre.rooms))
        => /\ lastOp.result = TRUE
           /\ Len(data.pis) = Len(pre.pis)
           /\ \A i \in 1..Len(pre.pis) :
                  data.pis[i] =
                      IF pre.pis[i].room_id = lastOp.id
                      THEN [pre.pis[i] EXCEPT !.room_id = Null]
                      ELSE pre.pis[i]
           /\ lastOp.id \notin RoomIdsOf(data.rooms)
           /\ Len(data.rooms) = Len(pre.rooms) - 1
           /\ lastOp.writes = 1
           /\ disk = Stringify(data)

\* a room with two nodes is removed while another room stays
C5_Witness ==
    /\ lastOp.op = "removeRoom"
    /\ lastOp.result = TRUE
    /\ Len(pre.pis) = 2
    /\ \A i \in 1..2 : pre.pis[i].room_id = lastOp.id
    /\ Len(data.rooms) = 1

\* C6: each node's room_id is null or the id of a room that exists.
C6_RoomIdReferencesRoom ==
    \A i \in 1..Len(data.pis) :
        data.pis[i].room_id = Null \/ data.pis[i].room_id \in RoomIdsOf(data.rooms)

\* C7: when a poll cycle ends, the view it publishes has exactly one entry
\* for each node the registry held when the cycle started, in registry order,
\* each marked online or marked offline with an error, whichever of its status
\* calls failed.
C7_PollReturnsEveryNode ==
    lastOp.op = "pollFinish"
        => /\ lastOp.published
           /\ Len(pis) = Len(lastOp.ids)
           /\ \A i \in 1..Len(pis) :
                  /\ pis[i].id = lastOp.ids[i]
                  /\ pis[i].online \in BOOLEAN
                  /\ ~pis[i].online => pis[i].error \in ErrorMessages

\* a cycle over two nodes ends with one node online and one offline, after a
\* node was removed from the registry while the cycle ran
C7_Witness ==
    /\ lastOp.op = "pollFinish"
    /\ Len(lastOp.ids) = 2
    /\ Len(pis) = 2
    /\ pis[1].online /\ ~pis[2].online
    /\ Len(data.pis) = 1

\* C8: when a status call of a poll cycle settles: on success the entry is
\* marked online and, the node being in the registry, its last_seen in memory
\* and in the file is the current time; on failure the entry is marked offline
\* with its error set and the node's last_seen is the value the cycle read
\* when it started.
C8_PollMarksAndWrites ==
    lastOp.op = "statusSettles"
        => LET c == cycles[lastOp.c]
               e == c.res[lastOp.i]
               j == FindIndex(data.pis, lastOp.id)
           IN  IF lastOp.ok
               THEN /\ e.online = TRUE
                    /\ j # 0 => /\ data.pis[j].last_seen = now
                                /\ disk = Stringify(data)
               ELSE /\ e.online = FALSE
                    /\ e.error \in ErrorMessages
                    /\ j # 0 => data.pis[j].last_seen = c.snap[lastOp.i].last_seen

\* C9: no node has status calls of two different poll cycles outstanding at
\* the same time.
C9_NoOverlappingCycles ==
    \A c1, c2 \in 1..Len(cycles) :
        c1 # c2 =>
            \A i \in 1..Len(cycles[c1].res), j \in 1..Len(cycles[c2].res) :
                ~(/\ cycles[c1].res[i] = Pending
                  /\ cycles[c2].res[j] = Pending
                  /\ cycles[c1].snap[i].id = cycles[c2].snap[j].id)

\* C10: when a bulk restart ends, every pi that was online in the view at the
\* click has been handled exactly once, in order, and successCount + failCount
\* is the number of those pis, whether a call succeeded, failed, got no reply
\* or threw.
C10_BulkCountsEveryTarget ==
    lastOp.op = "restartAllDone"
        => /\ Len(lastOp.handled) = Len(lastOp.targets)
           /\ \A k \in 1..Len(lastOp.targets) : lastOp.handled[k].id = lastOp.targets[k]
           /\ lastOp.successCount + lastOp.failCount = Len(lastOp.targets)
           /\ lastOp.successCount =
                  Cardinality({k \in 1..Len(lastOp.handled) : lastOp.handled[k].kind = "ok"})

\* a bulk restart of three pis ends after one call succeeded, one failed and
\* one threw
C10_Witness ==
    /\ lastOp.op = "restartAllDone"
    /\ Len(lastOp.targets) = 3
    /\ {lastOp.handled[k].kind : k \in 1..3} = {"ok", "error", "throw"}
    /\ lastOp.successCount = 1
    /\ lastOp.failCount = 2

\* C11: when a bulk restart in which some pi's call failed (error result or
\* exception) ends, the call of every pi of the list was issued, before and
\* after the failing one, and every pi whose own call succeeded was counted
\* as a success.
C11_FailureIsolated ==
    (/\ lastOp.op = "restartAllDone"
     /\ \E k \in 1..Len(lastOp.handled) : lastOp.handled[k].kind # "ok")
        => /\ [k \in 1..Len(lastOp.handled) |-> lastOp.handled[k].id] = lastOp.targets
           /\ \A k \in 1..Len(lastOp.handled) :
                  lastOp.handled[k].kind = "ok" => lastOp.handled[k].counted = "success"

\* three pis A, B, C: B's call throws, A's and C's succeed
C11_Witness ==
    /\ lastOp.op = "restartAllDone"
    /\ Len(lastOp.targets) = 3
    /\ Len(lastOp.handled) = 3
    /\ lastOp.handled[1].kind = "ok"
    /\ lastOp.handled[2].kind = "throw"
    /\ lastOp.handled[3].kind = "ok"
    /\ lastOp.successCount = 2

\* C12: while a bulk restart runs, the request to every pi of the list has
\* been sent: no request waits for another pi's call to settle.
C12_AllRequestsSentAtOnce ==
    bulk # Idle => Issued(bulk) = Len(bulk.onlinePis)

\* the classification of a node version written from the numbers c against
\* a latest version written from the numbers l is r
Classifies(c, l, r) ==
    (/\ lastOp.current.kind = "version" /\ lastOp.current.segs = c
     /\ lastOp.latest.kind = "version" /\ lastOp.latest.segs = l)
        => lastOp.result = r

\* C13: getUpdateType gives up to date for (1.2.0, 1.2.0), major for
\* (1.2.0, 2.0.0), minor for (1.2.0, 1.5.0), patch for (1.2.0, 1.2.7),
\* no-version for (null, 1.2.0), no-check for (1.2.0, null), major for
\* (9.9, 10.0); and for any two versions written from numbers it gives major
\* whenever the first number of latest is greater than the first number of
\* the node's version.
C13_ClassifierExamples ==
    lastOp.op = "getUpdateType"
        => /\ Classifies(<<1, 2, 0>>, <<1, 2, 0>>, NullS)
           /\ Classifies(<<1, 2, 0>>, <<2, 0, 0>>, "major")
           /\ Classifies(<<1, 2, 0>>, <<1, 5, 0>>, "minor")
           /\ Classifies(<<1, 2, 0>>, <<1, 2, 7>>, "patch")
           /\ Classifies(<<9, 9>>, <<10, 0>>, "major")
           /\ (lastOp.current.kind = "null" /\ lastOp.latest.segs = <<1, 2, 0>>)
                  => lastOp.result = "no-version"
           /\ (lastOp.current.segs = <<1, 2, 0>> /\ lastOp.latest.kind = "null")
                  => lastOp.result = "no-check"
           /\ (/\ lastOp.current.kind = "version"
               /\ lastOp.latest.kind = "version"
               /\ lastOp.latest.segs[1] > lastOp.current.segs[1])
                  => lastOp.result = "major"

\* 9.9 against 10.0 has been classified
C13_Witness ==
    /\ lastOp.op = "getUpdateType"
    /\ lastOp.current.str = Str(<<"9", ".", "9">>)
    /\ lastOp.latest.str = Str(<<"1", "0", ".", "0">>)
    /\ lastOp.result = "major"

\* C14: a node version that is null, empty or "unknown" gives no-version
\* whatever latest is; otherwise a latest that is null or empty gives
\* no-check; otherwise the result is up to date exactly when the two strings
\* are equal, and else one of major, minor, patch.
C14_ClassifierPriority ==
    lastOp.op = "getUpdateType"
        => LET noVersion == lastOp.current.kind \in {"null", "empty", "unknown"}
               noCheck == lastOp.latest.kind \in {"null", "empty"}
           IN  /\ noVersion => lastOp.result = "no-version"
               /\ (~noVersion /\ noCheck) => lastOp.result = "no-check"
               /\ (~noVersion /\ ~noCheck) =>
                      IF lastOp.current = lastOp.latest
                      THEN lastOp.result = NullS
                      ELSE lastOp.result \in {"major", "minor", "patch"}

\* neither version is available and the result is no-version
C14_Witness ==
    /\ lastOp.op = "getUpdateType"
    /\ lastOp.current.kind = "unknown"
    /\ lastOp.latest.kind = "null"
    /\ lastOp.result = "no-version"

C16_SaveIsAllOrNothing ==
    lastOp.op = "crashRestart"
        => data = lastOp.onDisk \/ data = lastOp.after

\* C17: a mutating call whose write of the file failed reports a storage
\* error to its caller.
C17_WriteFailureReported ==
    (lastOp.op \in {"addPi", "updatePi", "removePi", "addRoom", "removeRoom",
                    "assignPiToRoom"}
     /\ "writeFailed" \in DOMAIN lastOp)
        => lastOp.error = "StorageError"

\* C18: a poll cycle or a bulk restart in flight can be made to return at
\* once, without waiting for the calls still outstanding (which its result
\* would mark cancelled).
C18_InFlightCanReturn ==
    /\ \A c \in 1..Len(cycles) : ENABLED PollFinish(c)
    /\ bulk # Idle => ENABLED RestartAllDone

\* C19: when a poll cycle's last_seen write and an edit of the same pi
\* (updatePi with a name, assignPiToRoom) follow each other in either order,
\* neither undoes the other: the last_seen write leaves every other field of
\* the pi as the edit left it, the edit leaves last_seen as the poll left it,
\* and the file holds the pi with both.
C19_NoLostUpdate ==
    LET j == IF "id" \in DOMAIN lastOp THEN FindIndex(data.pis, lastOp.id) ELSE 0 IN
    /\ (lastOp.op = "statusSettles" /\ lastOp.ok /\ j # 0)
           => /\ data.pis[j] = [pre.pis[j] EXCEPT !.last_seen = now]
              /\ disk = Stringify(data)
    /\ (lastOp.op = "updatePi" /\ j # 0)
           => /\ data.pis[j] = [pre.pis[j] EXCEPT !.name = lastOp.arg.name]
              /\ disk = Stringify(data)
    /\ (lastOp.op = "assignPiToRoom" /\ j # 0)
           => /\ data.pis[j] = [pre.pis[j] EXCEPT !.room_id = lastOp.arg]
              /\ disk = Stringify(data)

\* a pi was renamed and assigned to a room while a poll cycle that had read
\* it was running, and the cycle's last_seen write has now been made
C19_Witness ==
    /\ lastOp.op = "statusSettles" /\ lastOp.ok
    /\ LET j == FindIndex(data.pis, lastOp.id)
           snap == cycles[lastOp.c].snap[lastOp.i]
       IN  /\ j # 0
           /\ snap.name = "Office" /\ snap.room_id = Null
           /\ data.pis[j].name = "Lobby-Pi"
           /\ data.pis[j].room_id = 1
           /\ data.pis[j].last_seen = now
           /\ disk.pis[j] = data.pis[j]

\* C20: a refresh the interval timer triggers starts a cycle only when no
\* dialog is open at that moment and auto-refresh is switched on.
C20_TimerRespectsPollFlag ==
    (lastOp.op = "refreshStart" /\ lastOp.trigger = "timer")
        => /\ modal = "none"
           /\ autoRefreshEnabled

\* the failure kinds a caller has to be able to tell apart
ErrorKind(o) == IF o.class = "unreachable" THEN "refused" ELSE o.class

\* C21: a status call ends in a result value, never in an exception; a call
\* that failed is reported as a failure, and the result tells which kind of
\* failure it was (timeout, refused/unreachable, remote error with its status
\* and message, malformed response): no two calls that failed differently
\* end in the same result.
C21_FailuresClassified ==
    lastOp.op = "getPiStatus"
        => /\ "rejected" \notin DOMAIN lastOp.result
           /\ (lastOp.outcome.class # "ok") => ~lastOp.result.success
           /\ \A o \in ClientOutcomes :
                  getPiStatus(o) = lastOp.result
                      => /\ ErrorKind(o) = ErrorKind(lastOp.outcome)
                         /\ (o.class = "remote")
                                => /\ o.status = lastOp.outcome.status
                                   /\ o.error = lastOp.outcome.error

\* C22: every poll cycle that starts finishes: the n-th start is followed by
\* an n-th finish, and whenever the refreshing flag is set, a cycle's merged
\* result is published and the flag cleared later on; a node whose call ends
\* in its timeout does not hold the cycle up.
C22_CycleFinishes ==
    /\ \A n \in 1..MaxRefreshes :
           (started >= n) ~> (started - Len(cycles) >= n)
    /\ refreshing ~> (lastOp.op = "pollFinish" /\ lastOp.published /\ ~refreshing)

\* a cycle over two pis was published with the flag cleared, one pi online
\* and the other offline because its call timed out
C22_Witness ==
    /\ lastOp.op = "pollFinish" /\ lastOp.published
    /\ ~refreshing
    /\ Len(pis) = 2
    /\ pis[1].online
    /\ ~pis[2].online /\ pis[2].error = "timeout of 5000ms exceeded"

\* C23: for two versions of at least two segments the classifier answers
\* minor only when the majors are equal and latest's minor is numerically
\* greater; when latest's major is smaller than the node's (node 2.0.0,
\* latest 1.5.0) the answer is never minor.
C23_MinorOnlyWithinMajor ==
    (/\ lastOp.op = "getUpdateType"
     /\ lastOp.current.kind = "version" /\ Len(lastOp.current.segs) >= 2
     /\ lastOp.latest.kind = "version" /\ Len(lastOp.latest.segs) >= 2
     /\ lastOp.result = "minor")
        => /\ lastOp.latest.segs[1] = lastOp.current.segs[1]
           /\ lastOp.latest.segs[2] > lastOp.current.segs[2]

\* C24: updatePi(id, updates) on a stored pi returns true and sets exactly the
\* fields updates provides, leaving the pi's other fields, its id and
\* created_at, every other pi, every room and both counters as they were, and
\* saves that; on an id the store does not hold it returns false and changes
\* nothing in memory or in the file.
C24_UpdateFrame ==
    lastOp.op = "updatePi"
        => LET i == FindIndex(pre.pis, lastOp.id)
               u == lastOp.arg
           IN  IF i = 0
               THEN /\ ~lastOp.result
                    /\ data = pre
                    /\ lastOp.writes = 0 /\ disk = Save(pre)
               ELSE /\ lastOp.result
                    /\ Len(data.pis) = Len(pre.pis)
                    /\ \A j \in 1..Len(pre.pis) : j # i => data.pis[j] = pre.pis[j]
                    /\ DOMAIN data.pis[i] = DOMAIN pre.pis[i]
                    /\ data.pis[i].id = pre.pis[i].id
                    /\ data.pis[i].created_at = pre.pis[i].created_at
                    /\ data.pis[i].name =
                           IF u.name = UndefS THEN pre.pis[i].name ELSE u.name
                    /\ data.pis[i].ip_address =
                           IF u.ip_address = UndefS THEN pre.pis[i].ip_address
                           ELSE u.ip_address
                    /\ data.pis[i].room_id =
                           IF u.room_id = UndefN THEN pre.pis[i].room_id ELSE u.room_id
                    /\ data.pis[i].last_seen =
                           IF u.last_seen = UndefN THEN pre.pis[i].last_seen
                           ELSE u.last_seen
                    /\ data.rooms = pre.rooms
                    /\ data.nextPiId = pre.nextPiId
                    /\ data.nextRoomId = pre.nextRoomId
                    /\ disk = Save(data)

\* the name alone of pi 2 of two has been updated
C24_Witness ==
    /\ lastOp.op = "updatePi" /\ lastOp.id = 2 /\ lastOp.result
    /\ lastOp.arg = [name |-> "Lobby-Pi", ip_address |-> UndefS,
                     room_id |-> UndefN, last_seen |-> UndefN]
    /\ Len(data.pis) = 2
    /\ pre.pis[2].name = "Office" /\ data.pis[2].name = "Lobby-Pi"
    /\ data.pis[2].ip_address = pre.pis[2].ip_address

\* C25: the record a successful status call is merged into keeps the id and
\* the ip_address the registry holds for the pi, whatever keys the payload
\* carries.
C25_MergeKeepsIdentity ==
    (lastOp.op = "statusSettles" /\ lastOp.ok)
        => LET merged == cycles[lastOp.c].res[lastOp.i]
               j == FindIndex(data.pis, lastOp.id)
           IN  /\ merged.id = lastOp.id
               /\ j # 0 => merged.ip_address = data.pis[j].ip_address

\* C26: the steps of a poll cycle leave the registry as it was, except that a
\* status call that succeeded sets last_seen of the pi it polled: no pi or
\* room is added or removed, no name, address or room_id changes, no key of
\* the status payload is stored, and both id counters stay.
C26_PollWritesLastSeenOnly ==
    /\ lastOp.op \in {"refreshStart", "refreshSkipped", "pollFinish"}
           => data = pre /\ disk = Save(data)
    /\ lastOp.op = "statusSettles"
           => /\ Len(data.pis) = Len(pre.pis)
              /\ \A j \in 1..Len(pre.pis) :
                     \/ data.pis[j] = pre.pis[j]
                     \/ /\ lastOp.ok
                        /\ pre.pis[j].id = lastOp.id
                        /\ data.pis[j] = [pre.pis[j] EXCEPT !.last_seen = now]
              /\ ~lastOp.ok => data = pre
              /\ data.rooms = pre.rooms
              /\ data.nextPiId = pre.nextPiId
              /\ data.nextRoomId = pre.nextRoomId
              /\ disk = Save(data)

\* a status call of a cycle over two pis succeeded: the view's entry carries
\* the payload, the registry's pi only a new last_seen
C26_Witness ==
    /\ lastOp.op = "statusSettles" /\ lastOp.ok
    /\ Len(data.pis) = 2
    /\ LET j == FindIndex(data.pis, lastOp.id) IN
       /\ j # 0
       /\ pre.pis[j].last_seen # now /\ data.pis[j].last_seen = now
       /\ "version" \in DOMAIN cycles[lastOp.c].res[lastOp.i]
       /\ "version" \notin DOMAIN data.pis[j]

\* C27: the view never holds an entry of a status call that has not settled,
\* and a cycle's merge publishes one settled entry per pi the cycle read; a
\* bulk restart shows its summary only when the call to every target has
\* settled and been counted, and keeps restartingAll set until then.
C27_AggregateAfterAllSettled ==
    /\ \A i \in 1..Len(pis) : pis[i] # Pending
    /\ (lastOp.op = "pollFinish" /\ lastOp.published)
           => /\ Len(pis) = Len(lastOp.ids)
              /\ \A i \in 1..Len(pis) : "online" \in DOMAIN pis[i]
    /\ lastOp.op = "restartAllDone"
           => /\ Len(lastOp.handled) = Len(lastOp.targets)
              /\ \A k \in 1..Len(lastOp.targets) :
                     lastOp.handled[k].id = lastOp.targets[k]
    /\ (bulk # Idle /\ bulk.i <= Len(bulk.onlinePis))
           => /\ restartingAll
              /\ lastOp.op # "restartAllDone"

\* a poll cycle over three pis was merged and a bulk restart of two of them
\* has shown its summary
C27_Witness ==
    /\ lastOp.op = "restartAllDone"
    /\ Len(lastOp.targets) = 2 /\ Len(lastOp.handled) = 2
    /\ started = 2 /\ cycles = <<>>
    /\ Len(pis) = 3

\* C28: whenever no poll cycle is in flight, the view was published by the
\* cycle that was started last, so that each pi's online flag is the outcome
\* of the status call issued to it most recently; the result of an older
\* call never replaces that of a newer one.
C28_ViewShowsLatestCall ==
    (cycles = <<>> /\ lastOp.op = "pollFinish" /\ Len(lastOp.ids) > 0)
        => lastOp.n = started

\* C29: a store starts with both counters at 1; no call and no reload of the
\* file lowers a counter; every stored id is below its counter; addPi and
\* addRoom return the counter's value as the new id and raise the counter by
\* one. So each id returned is greater than every id assigned before it.
C29_IdsNeverReused ==
    /\ lastOp.op = "constructor" => data.nextPiId = 1 /\ data.nextRoomId = 1
    /\ data.nextPiId >= pre.nextPiId
    /\ data.nextRoomId >= pre.nextRoomId
    /\ \A i \in 1..Len(data.pis) : data.pis[i].id < data.nextPiId
    /\ \A i \in 1..Len(data.rooms) : data.rooms[i].id < data.nextRoomId
    /\ (lastOp.op = "addPi" /\ "result" \in DOMAIN lastOp)
           => /\ lastOp.result.id = pre.nextPiId
              /\ data.nextPiId = pre.nextPiId + 1
    /\ (lastOp.op = "addRoom" /\ "result" \in DOMAIN lastOp)
           => /\ lastOp.result.id = pre.nextRoomId
              /\ data.nextRoomId = pre.nextRoomId + 1

\* C30: a pi that handleRemovePi has removed (its id was assigned, the
\* registry no longer holds it, and the handler has returned) is not in the
\* view, also after a poll cycle that read the pis before the removal is
\* merged; and no step puts a removed pi back into the registry.
C30_RemovedStaysRemoved ==
    \A n \in PiIdInputs :
        /\ (n < data.nextPiId /\ FindIndex(data.pis, n) = 0 /\ handler = Idle)
               => \A i \in 1..Len(pis) : pis[i].id # n
        /\ (n < pre.nextPiId /\ FindIndex(pre.pis, n) = 0)
               => FindIndex(data.pis, n) = 0

====
